---- MODULE Spec2Model ----
(***************************************************************************)
(* Tanielu Family Story (app.py): the users and photos tables, the access  *)
(* functions over them and the Streamlit script that calls them.           *)
(*                                                                         *)
(* Text that the code splits, joins, strips or matches (title,             *)
(* description, location, tags, people) is a sequence of one-character     *)
(* strings.  Text that is only compared and tested for emptiness (email,   *)
(* password, role, date) is a TLA+ string.  Python's None is <<>>, so a    *)
(* fetchone() result is a non-empty tuple or <<>>, and "if user:" is       *)
(* "user # <<>>".                                                          *)
(***************************************************************************)
EXTENDS Integers, Sequences, FiniteSets, TLC

VARIABLES
    users,         \* rows of table users, in rowid order
    photos,        \* rows of table photos, in rowid order
    session_user,  \* st.session_state.user: <<>> or <<[id, email, role]>>
    now,           \* CURRENT_TIMESTAMP, in whole seconds
    started,       \* the script has run at least once (init_db was called)
    msg,           \* the st.success / st.error of the last script run
    fault,         \* the exception that ended the last run or call, or "none"
    ret            \* what the last run displayed or the last call returned

vars == <<users, photos, session_user, now, started, msg, fault, ret>>

----------------------------------------------------------------------------
(* Bounds *)

MaxSignUps == 1
MaxPhotos == 1
MaxTime == 1

----------------------------------------------------------------------------
(* Python and SQLite text primitives *)

Range(s) == {s[i] : i \in 1..Len(s)}

UpperChars == <<"A", "B", "C", "D", "E", "F", "G", "H", "I", "J", "K", "L", "M",
                "N", "O", "P", "Q", "R", "S", "T", "U", "V", "W", "X", "Y", "Z">>
LowerChars == <<"a", "b", "c", "d", "e", "f", "g", "h", "i", "j", "k", "l", "m",
                "n", "o", "p", "q", "r", "s", "t", "u", "v", "w", "x", "y", "z">>
DigitChars == <<"0", "1", "2", "3", "4", "5", "6", "7", "8", "9">>

\* SQLite's LIKE folds the case of ASCII letters only.
Lower(c) ==
    IF \E i \in 1..Len(UpperChars) : UpperChars[i] = c
    THEN LowerChars[CHOOSE i \in 1..Len(UpperChars) : UpperChars[i] = c]
    ELSE c

\* str(n) for n >= 0
RECURSIVE Str(_)
Str(n) ==
    IF n < 10 THEN <<DigitChars[n + 1]>>
    ELSE Str(n \div 10) \o <<DigitChars[(n % 10) + 1]>>

\* str.strip(): leading and trailing whitespace removed
RECURSIVE LStrip(_)
LStrip(s) == IF s # <<>> /\ Head(s) = " " THEN LStrip(Tail(s)) ELSE s
RECURSIVE RStrip(_)
RStrip(s) ==
    IF s # <<>> /\ s[Len(s)] = " " THEN RStrip(SubSeq(s, 1, Len(s) - 1)) ELSE s
Strip(s) == RStrip(LStrip(s))

IsDigit(c) == \E i \in 1..Len(DigitChars) : DigitChars[i] = c
DigitValue(c) == (CHOOSE i \in 1..Len(DigitChars) : DigitChars[i] = c) - 1
RECURSIVE DigitsValue(_, _)
DigitsValue(s, acc) ==
    IF s = <<>> THEN acc ELSE DigitsValue(Tail(s), acc * 10 + DigitValue(Head(s)))

\* int(s), here ParseInt: <<n>>, or <<>> where Python raises ValueError (empty or non-digit
\* text; surrounding whitespace is accepted).
ParseInt(s) ==
    LET t == Strip(s)
    IN  IF t # <<>> /\ \A i \in 1..Len(t) : IsDigit(t[i])
        THEN <<DigitsValue(t, 0)>>
        ELSE <<>>

\* sep.join(list), for a one-character sep
RECURSIVE Join(_, _)
Join(list, sep) ==
    IF list = <<>> THEN <<>>
    ELSE IF Len(list) = 1 THEN list[1]
    ELSE list[1] \o <<sep>> \o Join(Tail(list), sep)

\* s.split(sep): never empty, ''.split(',') is ['']
RECURSIVE SplitFrom(_, _, _)
SplitFrom(s, sep, cur) ==
    IF s = <<>> THEN <<cur>>
    ELSE IF Head(s) = sep THEN <<cur>> \o SplitFrom(Tail(s), sep, <<>>)
    ELSE SplitFrom(Tail(s), sep, Append(cur, Head(s)))
Split(s, sep) == SplitFrom(s, sep, <<>>)

\* text LIKE pattern, as SQLite evaluates it: '%' matches any run of
\* characters, '_' any one character, letters match without regard to case.
RECURSIVE Like(_, _)
Like(text, pattern) ==
    IF pattern = <<>> THEN text = <<>>
    ELSE IF Head(pattern) = "%"
         THEN Like(text, Tail(pattern)) \/ (text # <<>> /\ Like(Tail(text), pattern))
    ELSE /\ text # <<>>
         /\ (Head(pattern) = "_" \/ Lower(Head(pattern)) = Lower(Head(text)))
         /\ Like(Tail(text), Tail(pattern))

\* map(str, people)
StrAll(list) == [i \in 1..Len(list) |-> Str(list[i])]

\* [t.strip() for t in list]
StripAll(list) == [i \in 1..Len(list) |-> Strip(list[i])]

----------------------------------------------------------------------------
(* The store: init_db and the access functions *)

None == <<>>

\* hashlib.sha256(pw.encode()).hexdigest(): a digest is not the plaintext,
\* and distinct plaintexts of the model have distinct digests.
hash_password(pw) == <<"sha256", pw>>

demo_users == << <<"john@family.com", "demo123", "Dad">>,
                 <<"mary@family.com", "demo123", "Mum">>,
                 <<"sarah@family.com", "demo123", "Daughter">> >>

SignUpRoles == <<"Mum", "Dad", "Son", "Daughter", "Grandparent", "Other">>

\* ISO dates as str(date) writes them, in ascending order; SQLite compares
\* them as text, which for these is the order of their positions here.
Dates == <<"2020-01-01", "2021-06-15">>
DateRank(d) == CHOOSE i \in 1..Len(Dates) : Dates[i] = d

\* INTEGER PRIMARY KEY AUTOINCREMENT: one more than the largest id ever used
\* (no row is ever deleted, so that is the largest id in the table).
RECURSIVE MaxId(_)
MaxId(rows) ==
    IF rows = <<>> THEN 0
    ELSE LET m == MaxId(Tail(rows)) IN IF Head(rows).id > m THEN Head(rows).id ELSE m
NextId(rows) == MaxId(rows) + 1

\* InsertUser as it would be without the UNIQUE constraint on email.
InsertUserNoUnique(u, email, password, role) ==
    [ok |-> TRUE,
     rows |-> Append(u, [id |-> NextId(u), email |-> email,
                         password |-> password, role |-> role])]

\* INSERT INTO users (email, password, role): email is UNIQUE, so the insert
\* raises sqlite3.IntegrityError (ok = FALSE) and changes nothing when a row
\* has that email.
InsertUser(u, email, password, role) ==
    IF \E i \in 1..Len(u) : u[i].email = email
    THEN [ok |-> FALSE, rows |-> u]
    ELSE [ok |-> TRUE,
          rows |-> Append(u, [id |-> NextId(u), email |-> email,
                              password |-> password, role |-> role])]

\* SeedDemo as it would be without the try / except.
SeedDemoUncaught(u, demo) ==
    LET r == InsertUser(u, demo[1], hash_password(demo[2]), demo[3])
    IN  [rows |-> r.rows, fault |-> IF r.ok THEN "none" ELSE "IntegrityError"]

\* One turn of init_db's loop: the IntegrityError is caught and passed over.
SeedDemo(u, demo) ==
    LET r == InsertUser(u, demo[1], hash_password(demo[2]), demo[3])
    IN  [rows |-> r.rows, fault |-> "none"]

RECURSIVE SeedFrom(_, _)
SeedFrom(st, i) ==
    IF i > Len(demo_users) \/ st.fault # "none" THEN st
    ELSE SeedFrom(SeedDemo(st.rows, demo_users[i]), i + 1)

\* init_db: CREATE TABLE IF NOT EXISTS leaves existing tables alone; then the
\* demo accounts are inserted.
init_db(u) == SeedFrom([rows |-> u, fault |-> "none"], 1)

\* authenticate as it would be with the password left out of the WHERE clause.
authenticate_email_only(u, email, pw) ==
    LET hit == SelectSeq(u, LAMBDA r : r.email = email)
    IN  IF hit = <<>> THEN None ELSE <<hit[1].id, hit[1].role>>

\* SELECT id, role FROM users WHERE email = ? AND password = ?; fetchone()
authenticate(u, email, pw) ==
    LET hashed_pw == hash_password(pw)
        hit == SelectSeq(u, LAMBDA r : r.email = email /\ r.password = hashed_pw)
    IN  IF hit = <<>> THEN None ELSE <<hit[1].id, hit[1].role>>

\* SELECT id, email, role FROM users; fetchall()
get_all_users(u) == [i \in 1..Len(u) |-> <<u[i].id, u[i].email, u[i].role>>]

\* SELECT email, role FROM users WHERE id = ?; fetchone()
get_user_by_id(u, user_id) ==
    LET hit == SelectSeq(u, LAMBDA r : r.id = user_id)
    IN  IF hit = <<>> THEN None ELSE <<hit[1].email, hit[1].role>>

\* PhotoRow as it would be with the uploader left out of the INSERT.
PhotoRowNoUploader(p, title, desc, date, loc, people, tags, uploader_id, image_data, t) ==
    LET people_str == IF people # <<>> THEN Join(StrAll(people), ",") ELSE <<>>
        tags_str == IF tags # <<>> THEN Join(tags, ",") ELSE <<>>
    IN  [id |-> NextId(p), title |-> title, description |-> desc, date |-> date,
         location |-> loc, people |-> people_str, tags |-> tags_str,
         uploader_id |-> 0, image_data |-> image_data, created_at |-> t]

\* save_photo: the row it inserts; created_at defaults to CURRENT_TIMESTAMP.
PhotoRow(p, title, desc, date, loc, people, tags, uploader_id, image_data, t) ==
    LET people_str == IF people # <<>> THEN Join(StrAll(people), ",") ELSE <<>>
        tags_str == IF tags # <<>> THEN Join(tags, ",") ELSE <<>>
    IN  [id |-> NextId(p), title |-> title, description |-> desc, date |-> date,
         location |-> loc, people |-> people_str, tags |-> tags_str,
         uploader_id |-> uploader_id, image_data |-> image_data, created_at |-> t]

save_photo(p, title, desc, date, loc, people, tags, uploader_id, image_data, t) ==
    Append(p, PhotoRow(p, title, desc, date, loc, people, tags, uploader_id,
                       image_data, t))

\* ORDER BY date DESC, created_at DESC: rows with equal date and created_at
\* may come in any order, so the result is one of a set of sequences.
SortsBefore(a, b) ==
    \/ DateRank(a.date) > DateRank(b.date)
    \/ DateRank(a.date) = DateRank(b.date) /\ a.created_at >= b.created_at

OrderByDateCreated(rows) ==
    LET n == Len(rows)
        perms == {f \in [1..n -> 1..n] : \A i, j \in 1..n : i # j => f[i] # f[j]}
    IN  {[i \in 1..n |-> rows[f[i]]] : f \in
            {g \in perms : \A i, j \in 1..n :
                i < j => SortsBefore(rows[g[i]], rows[g[j]])}}

\* SELECT * FROM photos ORDER BY date DESC, created_at DESC
get_all_photos(p) == OrderByDateCreated(p)

\* The WHERE clause of search_photos
LikeMatch(r, like_query) ==
    \/ Like(r.title, like_query)
    \/ Like(r.description, like_query)
    \/ Like(r.location, like_query)
    \/ Like(r.tags, like_query)
    \/ Like(r.people, like_query)

search_photos(p, query) ==
    LET like_query == <<"%">> \o query \o <<"%">>
    IN  OrderByDateCreated(SelectSeq(p, LAMBDA r : LikeMatch(r, like_query)))

\* Uploaded files: an RGB JPEG; a PNG with an alpha channel, which
\* Image.open reads and img.save(format="JPEG") refuses (OSError); bytes that
\* are no image (UnidentifiedImageError).
Files == {"rgb.jpg", "rgba.png", "corrupt.jpg"}

resize_image(image) ==
    IF image = "rgb.jpg" THEN [ok |-> TRUE, value |-> <<"JPEG", image>>]
    ELSE IF image = "rgba.png" THEN [ok |-> FALSE, value |-> "OSError"]
    ELSE [ok |-> FALSE, value |-> "UnidentifiedImageError"]

base64_image(image_bytes) == <<"base64", image_bytes>>

\* get_family_role_map: the dict as its items in insertion order,
\* <<role, emails>>.
RECURSIVE RoleMapFrom(_, _)
RoleMapFrom(rows, role_map) ==
    IF rows = <<>> THEN role_map
    ELSE LET email == Head(rows)[2]
             role == Head(rows)[3]
             withKey == IF \E i \in 1..Len(role_map) : role_map[i][1] = role
                        THEN role_map
                        ELSE Append(role_map, <<role, <<>> >>)
         IN  RoleMapFrom(Tail(rows),
                 [i \in 1..Len(withKey) |->
                     IF withKey[i][1] = role
                     THEN <<role, Append(withKey[i][2], email)>>
                     ELSE withKey[i]])

\* get_family_role_map as it would be with role_map[role] = [email] in place
\* of the append.
RECURSIVE RoleMapOverwrite(_, _)
RoleMapOverwrite(rows, role_map) ==
    IF rows = <<>> THEN role_map
    ELSE LET email == Head(rows)[2]
             role == Head(rows)[3]
             withKey == IF \E i \in 1..Len(role_map) : role_map[i][1] = role
                        THEN role_map
                        ELSE Append(role_map, <<role, <<>> >>)
         IN  RoleMapOverwrite(Tail(rows),
                 [i \in 1..Len(withKey) |->
                     IF withKey[i][1] = role THEN <<role, <<email>> >> ELSE withKey[i]])
get_family_role_map_overwrite(u) == RoleMapOverwrite(get_all_users(u), <<>>)

get_family_role_map(u) == RoleMapFrom(get_all_users(u), <<>>)

----------------------------------------------------------------------------
(* The page the script draws for a logged-in user (lines 218-267) *)

\* The loop of lines 235-238: int(pid) raises ValueError on text that is no
\* number; an id that get_user_by_id does not find is passed over.
RECURSIVE ResolvePeople(_, _, _)
ResolvePeople(u, people_ids, people_emails) ==
    IF people_ids = <<>> THEN [fault |-> "none", emails |-> people_emails]
    ELSE LET n == ParseInt(Head(people_ids))
         IN  IF n = <<>> THEN [fault |-> "ValueError", emails |-> people_emails]
             ELSE LET q == get_user_by_id(u, n[1])
                  IN  ResolvePeople(u, Tail(people_ids),
                          IF q # None THEN Append(people_emails, q[1])
                          ELSE people_emails)

\* Line 239: the tags of a stored photo.
tags_of(tags_str) == IF tags_str # <<>> THEN Split(tags_str, ",") ELSE <<>>

\* Lines 233-234: the people ids of a stored photo, as text.
people_ids_of(people_str) == IF people_str # <<>> THEN Split(people_str, ",") ELSE <<>>

\* One turn of the Timeline loop (lines 230-247).  Line 247 subscripts the
\* uploader, which raises TypeError when get_user_by_id returned None.
TimelineEntry(u, photo) ==
    LET uploader == get_user_by_id(u, photo.uploader_id)
        people == ResolvePeople(u, people_ids_of(photo.people), <<>>)
        tags == tags_of(photo.tags)
        shown == [id |-> photo.id, title |-> photo.title, date |-> photo.date,
                  description |-> photo.description, location |-> photo.location,
                  people |-> people.emails, tags |-> tags, uploader |-> uploader]
    IN  IF people.fault # "none" THEN [fault |-> people.fault, shown |-> shown]
        ELSE IF uploader = None THEN [fault |-> "TypeError", shown |-> shown]
        ELSE [fault |-> "none", shown |-> shown]

\* The Timeline loop: the first exception ends the script run.
RECURSIVE Timeline(_, _, _)
Timeline(u, list, done) ==
    IF list = <<>> THEN [fault |-> "none", entries |-> done]
    ELSE LET e == TimelineEntry(u, Head(list))
         IN  IF e.fault # "none"
             THEN [fault |-> e.fault, entries |-> Append(done, e.shown)]
             ELSE Timeline(u, Tail(list), Append(done, e.shown))

\* The Grid loop (lines 250-260): a caption per photo, and the details of
\* the photo whose Details button was pressed (det, 0 for none).
Grid(list, det) ==
    [fault |-> "none",
     entries |-> [i \in 1..Len(list) |->
        IF list[i].id = det
        THEN [id |-> list[i].id, title |-> list[i].title, date |-> list[i].date,
              description |-> list[i].description, location |-> list[i].location]
        ELSE [id |-> list[i].id, title |-> list[i].title]]]

\* Lines 226-267 for the photos the query returned: the view, then the
\* Family Role Map unless an exception has ended the run.
Page(u, list, view_mode, det) ==
    LET v == IF view_mode = "Timeline" THEN Timeline(u, list, <<>>) ELSE Grid(list, det)
    IN  [fault |-> v.fault,
         view_mode |-> view_mode,
         entries |-> v.entries,
         role_map |-> IF v.fault = "none" THEN get_family_role_map(u) ELSE <<>>]

\* Lines 219-223: the photos the page is drawn from.
Queried(p, search_query) ==
    IF search_query # <<>> THEN search_photos(p, search_query) ELSE get_all_photos(p)

\* Line 203
tags_list(tags) == IF tags # <<>> THEN StripAll(Split(tags, ",")) ELSE <<>>

----------------------------------------------------------------------------
(* Inputs of the script *)

SignUpEmails == {"", "john@family.com", "amy@family.com", "ben@family.com"}
SignUpPasswords == {"", "pw1"}
LoginEmails == {"john@family.com", "amy@family.com", "zoe@family.com"}
LoginPasswords == {"demo123", "pw1"}
RoleChoices == {SignUpRoles[2], SignUpRoles[3]}

FormTitles == {<<"a">>}
FormDescs == {<<>>}
FormDates == {Dates[2]}
FormLocs == {<<"b", "e", "a", "c", "h">>}
FormTags == {<<"a", ",", " ", "b">>}
PickEmails == {"amy@family.com"}
Queries == {<<>>, <<"_">>}
ViewModes == {"Timeline", "Grid"}
NoFile == ""

\* st.multiselect over the keys of people_options: the chosen keys, each
\* once, in the order chosen.
Selections(keys) ==
    {<<>>} \cup {<<a>> : a \in keys} \cup
    {s \in {<<a, b>> : a \in keys, b \in keys} : s[1] # s[2]}

\* Line 199 and 201: people_options maps an email to its id.
people_option(u, email) ==
    (CHOOSE r \in Range(get_all_users(u)) : r[2] = email)[1]

LoginPage == [fault |-> "none", view_mode |-> "Login", entries |-> <<>>,
              role_map |-> <<>>]
NoPage == [fault |-> "none", view_mode |-> "", entries |-> <<>>, role_map |-> <<>>]

----------------------------------------------------------------------------
(* The script, one action per run *)

Init ==
    /\ users = <<>>
    /\ photos = <<>>
    /\ session_user = None
    /\ now = 0
    /\ started = FALSE
    /\ msg = ""
    /\ fault = "none"
    /\ ret = [op |-> "", arg |-> <<>>, value |-> <<>>, page |-> NoPage]

\* CURRENT_TIMESTAMP moves on by a second.
Tick ==
    /\ now < MaxTime
    /\ now' = now + 1
    /\ UNCHANGED <<users, photos, session_user, started, msg, fault, ret>>

\* A run with nobody logged in and no button pressed: init_db (line 59) and
\* the Login / Sign Up tabs.
Run ==
    /\ session_user = None
    /\ LET db == init_db(users)
       IN  /\ users' = db.rows
           /\ fault' = db.fault
    /\ started' = TRUE
    /\ msg' = ""
    /\ ret' = [op |-> "Run", arg |-> <<>>, value |-> <<>>, page |-> LoginPage]
    /\ UNCHANGED <<photos, session_user, now>>

\* The Login button (lines 156-162).  On success st.rerun() runs the script
\* again, now with the user set: init_db, then the page with its widgets at
\* their defaults.
Login(email, pw) ==
    /\ started
    /\ session_user = None
    /\ LET db == init_db(users)
           user == authenticate(db.rows, email, pw)
       IN  IF user # None
           THEN LET db2 == init_db(db.rows)
                IN  /\ users' = db2.rows
                    /\ session_user' = <<[id |-> user[1], email |-> email,
                                          role |-> user[2]]>>
                    /\ msg' = ""
                    /\ \E list \in get_all_photos(photos) :
                         LET page == Page(db2.rows, list, "Timeline", 0)
                         IN  /\ fault' = page.fault
                             /\ ret' = [op |-> "Login", arg |-> <<email, pw>>,
                                        value |-> user, page |-> page]
           ELSE /\ users' = db.rows
                /\ session_user' = session_user
                /\ msg' = "Invalid credentials"
                /\ fault' = db.fault
                /\ ret' = [op |-> "Login", arg |-> <<email, pw>>,
                           value |-> user, page |-> LoginPage]
    /\ UNCHANGED <<photos, now, started>>

\* The Sign Up button (lines 169-182)
SignUp(new_email, new_pw, new_role) ==
    /\ started
    /\ session_user = None
    /\ LET db == init_db(users)
           r == InsertUser(db.rows, new_email, hash_password(new_pw), new_role)
       IN  /\ \/ new_email = ""
              \/ new_pw = ""
              \/ ~r.ok
              \/ Len(db.rows) < Len(demo_users) + MaxSignUps
           /\ IF new_email # "" /\ new_pw # "" /\ new_role # ""
              THEN /\ users' = r.rows
                   /\ msg' = IF r.ok THEN "Account created! Please login."
                             ELSE "Email already exists"
              ELSE /\ users' = db.rows
                   /\ msg' = "Fill all fields"
           /\ fault' = db.fault
    /\ ret' = [op |-> "SignUp", arg |-> <<new_email, new_pw, new_role>>,
               value |-> <<>>, page |-> LoginPage]
    /\ UNCHANGED <<photos, session_user, now, started>>

\* The Logout button (lines 185-187): the user is deleted from the session
\* and st.rerun() runs the script again, which sets it to None (line 147).
Logout ==
    /\ session_user # None
    /\ LET db == init_db(init_db(users).rows)
       IN  /\ users' = db.rows
           /\ fault' = db.fault
    /\ session_user' = None
    /\ msg' = ""
    /\ ret' = [op |-> "Logout", arg |-> <<>>, value |-> <<>>, page |-> LoginPage]
    /\ UNCHANGED <<photos, now, started>>

\* A run for the logged-in user with no button pressed, or with a Details
\* button pressed (det): the upload section resizes the uploaded file, if
\* any, and an exception of resize_image ends the run there (line 212).
\* The collage checkbox only adds a warning to the page and is left out.
View(uploaded_file, search_query, view_mode, det) ==
    /\ session_user # None
    /\ view_mode = "Timeline" => det = 0
    /\ LET db == init_db(users)
           resized == resize_image(uploaded_file)
       IN  /\ users' = db.rows
           /\ IF uploaded_file # NoFile /\ ~resized.ok
              THEN /\ fault' = resized.value
                   /\ msg' = ""
                   /\ ret' = [op |-> "View", arg |-> <<uploaded_file, search_query>>,
                              value |-> <<>>, page |-> NoPage]
              ELSE /\ msg' = ""
                   /\ \E list \in Queried(photos, search_query) :
                        LET page == Page(db.rows, list, view_mode, det)
                        IN  /\ fault' = page.fault
                            /\ ret' = [op |-> "View",
                                       arg |-> <<uploaded_file, search_query>>,
                                       value |-> <<>>, page |-> page]
    /\ UNCHANGED <<photos, session_user, now, started>>

\* The Save Photo button (lines 207-216), which the page offers once the
\* uploaded file has been resized; the rest of the page is drawn after it.
SavePhoto(title, desc, date, loc, selected_people, tags, uploaded_file, search_query, view_mode) ==
    /\ session_user # None
    /\ Len(photos) < MaxPhotos
    /\ uploaded_file # NoFile
    /\ resize_image(uploaded_file).ok
    /\ LET db == init_db(users)
           people_ids == [i \in 1..Len(selected_people) |->
                            people_option(db.rows, selected_people[i])]
           image_data == base64_image(resize_image(uploaded_file).value)
           saved == save_photo(photos, title, desc, date, loc, people_ids,
                               tags_list(tags), session_user[1].id, image_data, now)
       IN  /\ users' = db.rows
           /\ photos' = saved
           /\ msg' = "Photo saved!"
           /\ \E list \in Queried(saved, search_query) :
                LET page == Page(db.rows, list, view_mode, 0)
                IN  /\ fault' = page.fault
                    /\ ret' = [op |-> "SavePhoto", arg |-> <<uploaded_file, search_query>>,
                               value |-> <<>>, page |-> page]
    /\ UNCHANGED <<session_user, now, started>>

\* The runs of one session of the script.  They fall within one second: the
\* clock moves in NextApi, where the order of get_all_photos is looked at.
Next ==
    \/ Run
    \/ \E email \in LoginEmails, pw \in LoginPasswords : Login(email, pw)
    \/ \E new_email \in SignUpEmails, new_pw \in SignUpPasswords, new_role \in RoleChoices :
          SignUp(new_email, new_pw, new_role)
    \/ Logout
    \/ \E uploaded_file \in Files \cup {NoFile},
          search_query \in Queries, view_mode \in ViewModes,
          det \in {0} \cup {photos[i].id : i \in 1..Len(photos)} :
          View(uploaded_file, search_query, view_mode, det)
    \/ \E title \in FormTitles, desc \in FormDescs, date \in FormDates,
          loc \in FormLocs, tags \in FormTags, uploaded_file \in Files,
          search_query \in Queries, view_mode \in ViewModes,
          selected_people \in Selections(PickEmails \cap {users[i].email : i \in 1..Len(users)}) :
          SavePhoto(title, desc, date, loc, selected_people, tags, uploaded_file,
                    search_query, view_mode)

Spec == Init /\ [][Next]_vars

----------------------------------------------------------------------------
(* The access functions called directly on the store, with arguments the   *)
(* script itself would not pass: ids of no user, tags holding a comma.     *)

MaxApiPhotos == 2

ApiPhotoInputs ==
    { [title |-> <<"a">>, desc |-> <<"d">>, loc |-> <<"b", "e", "a", "c", "h">>,
       people |-> <<>>, tags |-> <<>>, uploader_id |-> 1],
      [title |-> <<"B">>, desc |-> <<>>, loc |-> <<>>,
       people |-> <<1, 12>>, tags |-> << <<"x">>, <<"y">> >>, uploader_id |-> 2],
      [title |-> <<"a">>, desc |-> <<>>, loc |-> <<>>,
       people |-> <<2>>, tags |-> << <<>> >>, uploader_id |-> 2],
      [title |-> <<"B">>, desc |-> <<>>, loc |-> <<>>,
       people |-> <<9>>, tags |-> << <<"x", ",", "y">> >>, uploader_id |-> 9] }
ApiQueries == {<<"b", "e", "a", "c", "h">>, <<"b">>, <<"_">>, <<"1">>}
ApiUserIds == {1, 9}

\* save_photo(title, desc, date, loc, people, tags, uploader_id, image_data)
SavePhotoCall(in, date) ==
    /\ started
    /\ Len(photos) < MaxApiPhotos
    /\ photos' = save_photo(photos, in.title, in.desc, date, in.loc, in.people,
                            in.tags, in.uploader_id,
                            base64_image(resize_image("rgb.jpg").value), now)
    /\ fault' = "none"
    /\ ret' = [op |-> "save_photo", arg |-> [in |-> in, date |-> date],
               value |-> NextId(photos), page |-> NoPage]
    /\ UNCHANGED <<users, session_user, now, started, msg>>

\* get_all_photos()
GetAllPhotosCall ==
    /\ started
    /\ \E list \in get_all_photos(photos) :
          ret' = [op |-> "get_all_photos", arg |-> <<>>, value |-> list,
                  page |-> NoPage]
    /\ fault' = "none"
    /\ UNCHANGED <<users, photos, session_user, now, started, msg>>

\* search_photos(query)
SearchPhotosCall(query) ==
    /\ started
    /\ \E list \in search_photos(photos, query) :
          ret' = [op |-> "search_photos", arg |-> query, value |-> list,
                  page |-> NoPage]
    /\ fault' = "none"
    /\ UNCHANGED <<users, photos, session_user, now, started, msg>>

\* get_user_by_id(user_id)
GetUserByIdCall(user_id) ==
    /\ started
    /\ ret' = [op |-> "get_user_by_id", arg |-> user_id,
               value |-> get_user_by_id(users, user_id), page |-> NoPage]
    /\ fault' = "none"
    /\ UNCHANGED <<users, photos, session_user, now, started, msg>>

\* The Timeline view of lines 228-247 over get_all_photos().
TimelineCall ==
    /\ started
    /\ \E list \in get_all_photos(photos) :
          LET page == Page(users, list, "Timeline", 0)
          IN  /\ fault' = page.fault
              /\ ret' = [op |-> "Timeline", arg |-> <<>>, value |-> list,
                         page |-> page]
    /\ UNCHANGED <<users, photos, session_user, now, started, msg>>

NextApi ==
    \/ Tick
    \/ Run
    \/ \E in \in ApiPhotoInputs, date \in Range(Dates) : SavePhotoCall(in, date)
    \/ GetAllPhotosCall
    \/ \E query \in ApiQueries : SearchPhotosCall(query)
    \/ \E user_id \in ApiUserIds : GetUserByIdCall(user_id)
    \/ TimelineCall

SpecApi == Init /\ [][NextApi]_vars

----------------------------------------------------------------------------
(* Properties *)

Emails(u) == {u[i].email : i \in 1..Len(u)}
NoDuplicateEmail(u) == \A i, j \in 1..Len(u) : u[i].email = u[j].email => i = j
Ids(rows) == {rows[i].id : i \in 1..Len(rows)}

\* C1 as claimed: every sign-up of an email not yet registered inserts one
\* user and reports success, and every sign-up of a registered email, with
\* any password and role, reports "Email already exists" and leaves the table
\* as it was.
C1_SignUpTwice_AsClaimed ==
    [][(ret'.op = "SignUp" /\ now' = now) =>
        IF ret'.arg[1] \in Emails(users)
        THEN msg' = "Email already exists" /\ users' = users
        ELSE /\ msg' = "Account created! Please login."
             /\ Len(users') = Len(users) + 1]_vars

\* C1 amended: a sign-up with an empty email or password reports "Fill all
\* fields" and inserts nothing; otherwise a sign-up of an email not yet
\* registered appends exactly one user with that email and reports success,
\* and a sign-up of a registered email reports "Email already exists" and
\* leaves the table as it was; no two users ever share an email.
C1_SignUpTwice ==
    [][(ret'.op = "SignUp" /\ now' = now) =>
        /\ NoDuplicateEmail(users')
        /\ IF ret'.arg[1] = "" \/ ret'.arg[2] = ""
           THEN msg' = "Fill all fields" /\ users' = users
           ELSE IF ret'.arg[1] \in Emails(users)
           THEN msg' = "Email already exists" /\ users' = users
           ELSE /\ msg' = "Account created! Please login."
                /\ Len(users') = Len(users) + 1
                /\ SubSeq(users', 1, Len(users)) = users
                /\ users'[Len(users')].email = ret'.arg[1]
                /\ users'[Len(users')].role = ret'.arg[3]]_vars

\* A second sign-up of an email that an earlier sign-up registered.
C1_Witness ==
    /\ ret.op = "SignUp"
    /\ ret.arg[1] = "amy@family.com"
    /\ ret.arg[2] # ""
    /\ msg = "Email already exists"

\* C2: a login returns the id and role of the user whose stored email is the
\* email given and whose stored digest is the digest of the password given,
\* and sets the session to that user; when there is no such user, whether the
\* email is unknown or the password wrong, it returns None, reports "Invalid
\* credentials" and leaves the session empty.
C2_Authenticate ==
    ret.op = "Login" =>
        LET email == ret.arg[1]
            digest == hash_password(ret.arg[2])
            match == {i \in 1..Len(users) :
                        users[i].email = email /\ users[i].password = digest}
        IN  IF match = {}
            THEN ret.value = None /\ msg = "Invalid credentials" /\ session_user = None
            ELSE \E i \in match :
                    /\ ret.value = <<users[i].id, users[i].role>>
                    /\ session_user = <<[id |-> users[i].id, email |-> email,
                                         role |-> users[i].role]>>

\* A login with a registered email and a wrong password.
C2_Witness ==
    /\ ret.op = "Login"
    /\ ret.arg[1] \in Emails(users)
    /\ ret.value = None

\* C3: right after save_photo, every get_all_photos result holds the saved
\* photo with its title, description, date and location, and splitting its
\* people and tags text on commas gives back the people ids and the tags that
\* were saved, as sets.
C3_SaveListRoundTrip ==
    ret.op = "save_photo" =>
        \A list \in get_all_photos(photos) :
            \E i \in 1..Len(list) :
                /\ list[i].id = ret.value
                /\ list[i].title = ret.arg.in.title
                /\ list[i].description = ret.arg.in.desc
                /\ list[i].date = ret.arg.date
                /\ list[i].location = ret.arg.in.loc
                /\ {ParseInt(x) : x \in Range(people_ids_of(list[i].people))}
                       = {<<n>> : n \in Range(ret.arg.in.people)}
                /\ Range(tags_of(list[i].tags)) = Range(ret.arg.in.tags)

\* C4: get_all_photos returns every stored photo once, by date descending,
\* and of two photos with the same date the one inserted later comes first.
C4_ListOrder ==
    ret.op = "get_all_photos" =>
        /\ Len(ret.value) = Len(photos)
        /\ Ids(ret.value) = Ids(photos)
        /\ \A i, j \in 1..Len(ret.value) :
              i < j =>
                 \/ DateRank(ret.value[i].date) > DateRank(ret.value[j].date)
                 \/ /\ ret.value[i].date = ret.value[j].date
                    /\ ret.value[i].id > ret.value[j].id

Fold(s) == [i \in 1..Len(s) |-> Lower(s[i])]
Contains(text, q) ==
    \E i \in 0..(Len(text) - Len(q)) :
        Fold(SubSeq(text, i + 1, i + Len(q))) = Fold(q)

\* C5: search_photos(query) returns exactly the photos of which the query is
\* a substring (letter case aside) of the title, description, location, tags
\* or people text, each once, '%' and '_' in the query standing for
\* themselves.
C5_SearchSubstring ==
    ret.op = "search_photos" =>
        /\ Ids(ret.value) =
              {photos[k].id : k \in {n \in 1..Len(photos) :
                  \/ Contains(photos[n].title, ret.arg)
                  \/ Contains(photos[n].description, ret.arg)
                  \/ Contains(photos[n].location, ret.arg)
                  \/ Contains(photos[n].tags, ret.arg)
                  \/ Contains(photos[n].people, ret.arg)}}
        /\ Cardinality(Ids(ret.value)) = Len(ret.value)

\* C6: once init_db has run, each demo email has exactly one account, with
\* the demo password and role, and running init_db again raises nothing and
\* leaves the users table as it is (it never writes the photos table).
C6_SeedIdempotent ==
    started =>
        /\ \A d \in 1..Len(demo_users) :
              /\ Cardinality({i \in 1..Len(users) :
                                users[i].email = demo_users[d][1]}) = 1
              /\ \E i \in 1..Len(users) :
                    /\ users[i].email = demo_users[d][1]
                    /\ users[i].password = hash_password(demo_users[d][2])
                    /\ users[i].role = demo_users[d][3]
        /\ init_db(users) = [rows |-> users, fault |-> "none"]
        /\ (ret.op = "Run" => fault = "none")

\* init_db has run again after a sign-up and a saved photo.
C6_Witness ==
    /\ ret.op = "Run"
    /\ Len(users) > Len(demo_users)
    /\ Len(photos) > 0

C8_UploadRejected ==
    [][(ret'.op = "View" /\ now' = now /\ ret'.arg[1] # NoFile
            /\ ~resize_image(ret'.arg[1]).ok) =>
        /\ fault' = "none"
        /\ msg' # ""
        /\ photos' = photos]_vars

RoleMapOK(m, rows) ==
    /\ \A i, j \in 1..Len(m) : m[i][1] = m[j][1] => i = j
    /\ \A k \in 1..Len(rows) :
          Cardinality({<<i, n>> \in {<<a, b>> \in (1..Len(m)) \X (1..Len(rows)) :
                                        b <= Len(m[a][2])} :
                          m[i][2][n] = rows[k][2]}) = 1
    /\ \A i \in 1..Len(m) :
          /\ m[i][2] # <<>>
          /\ LET same == SelectSeq(rows, LAMBDA r : r[3] = m[i][1])
             IN  m[i][2] = [n \in 1..Len(same) |-> same[n][2]]
    /\ \A i, j \in 1..Len(m) :
          i < j =>
             (CHOOSE a \in 1..Len(rows) :
                 rows[a][3] = m[i][1] /\ \A b \in 1..(a - 1) : rows[b][3] # m[i][1])
             < (CHOOSE a \in 1..Len(rows) :
                 rows[a][3] = m[j][1] /\ \A b \in 1..(a - 1) : rows[b][3] # m[j][1])

\* C9: the Family Role Map a page shows holds every user's email once, under
\* that user's role, the emails of a role in get_all_users order and the
\* roles in the order of their first user; drawing the page changes neither
\* table.
C9_RoleMap ==
    [][(ret'.op = "View" /\ now' = now /\ ret'.page.fault = "none"
            /\ ret'.page.view_mode \in ViewModes) =>
        /\ users' = users
        /\ photos' = photos
        /\ RoleMapOK(ret'.page.role_map, get_all_users(users))]_vars

\* A page whose role map holds two emails under one role.
C9_Witness ==
    /\ ret.op = "View"
    /\ ret.page.view_mode \in ViewModes
    /\ \E i \in 1..Len(ret.page.role_map) : Len(ret.page.role_map[i][2]) = 2

\* C10: every stored photo's uploader id is the id of a user, a photo just
\* saved has the id of the session's user, and no page fails on an uploader
\* that get_user_by_id does not find.
C10_UploaderExists ==
    /\ \A i \in 1..Len(photos) : get_user_by_id(users, photos[i].uploader_id) # None
    /\ ret.op = "SavePhoto" =>
          /\ session_user # None
          /\ photos[Len(photos)].uploader_id = session_user[1].id
    /\ fault # "TypeError"

\* A Timeline page that shows a photo and its uploader, drawn for a user who
\* did not upload it.
C10_Witness ==
    /\ ret.op = "View"
    /\ ret.page.view_mode = "Timeline"
    /\ ret.page.fault = "none"
    /\ \E i \in 1..Len(ret.page.entries) :
          /\ ret.page.entries[i].uploader # None
          /\ ret.page.entries[i].uploader[1] # session_user[1].email

====
